---- MODULE Spec2Model ----
(***************************************************************************)
(* Antara: the progress evaluator (getProgress and its three strategies),  *)
(* the rhythm / activity / history store it is fed from, the forms that    *)
(* persist an activity with its rhythm, the errands store, the status      *)
(* loader and the status display.                                          *)
(*                                                                         *)
(* Representation of values                                                *)
(*   Date      [day |-> d, ms |-> m]: the instant m milliseconds after    *)
(*             midnight of the d-th day after 1970-01-01 on the           *)
(*             standard-time clock of the host's time zone, so that       *)
(*             getTime() = d * msPerDay + m up to the zone's fixed        *)
(*             standard offset, 0 <= m < msPerDay.  The pair keeps every  *)
(*             millisecond of the real clock while staying inside the     *)
(*             checker's 32-bit integers.  Date's local getters and       *)
(*             setters read the wall clock, which runs one hour ahead of  *)
(*             the standard-time clock while daylight saving is in force. *)
(*   Millis    [days |-> d, ms |-> m]: a signed number of milliseconds,   *)
(*             d * msPerDay + m with 0 <= m < msPerDay.                   *)
(*   nullable  NULL is {}, a present value v is {v}.                      *)
(*   optional  a field of a status that is absent in the code is absent   *)
(*             from the record.                                            *)
(***************************************************************************)
EXTENDS Integers, Sequences, FiniteSets, TLC

\* ------------------------------------------------------------------------
\* Bounds of the model
\* ------------------------------------------------------------------------
MaxEvery == 1
MaxTarget == 2
MaxMinutes == 1
MaxHistory == 2
MaxRhythmRows == 1
MaxActivityRows == 1
MaxHistoryRows == 2
MaxErrandRows == 2
MaxForms == 1

\* ------------------------------------------------------------------------
\* Dates (JavaScript Date, local time)
\* ------------------------------------------------------------------------
msPerDay == 1000 * 60 * 60 * 24

NULL == {}
Some(v) == {v}
ValueOf(opt) == CHOOSE v \in opt : TRUE

MkDate(d, m) == [day |-> d, ms |-> m]

\* a.getTime() >= b.getTime(), a.getTime() > b.getTime()
DateGE(a, b) == a.day > b.day \/ (a.day = b.day /\ a.ms >= b.ms)
DateGT(a, b) == a.day > b.day \/ (a.day = b.day /\ a.ms > b.ms)

\* n * msPerDay milliseconds
DaysToMs(n) == [days |-> n, ms |-> 0]

\* new Date(a.getTime() - dur)
DateMinusMs(a, dur) ==
    IF a.ms >= dur.ms
      THEN MkDate(a.day - dur.days, a.ms - dur.ms)
      ELSE MkDate(a.day - dur.days - 1, a.ms - dur.ms + msPerDay)

\* a.getTime() - b.getTime()
MsBetween(a, b) ==
    IF a.ms >= b.ms
      THEN [days |-> a.day - b.day, ms |-> a.ms - b.ms]
      ELSE [days |-> a.day - b.day - 1, ms |-> a.ms - b.ms + msPerDay]

\* Math.ceil(dur / msPerDay)
CeilDays(dur) == dur.days + (IF dur.ms > 0 THEN 1 ELSE 0)

Max(a, b) == IF a >= b THEN a ELSE b

\* The civil calendar behind Date's local-time getters and setters.
IsLeapYear(y) == (y % 4 = 0 /\ y % 100 # 0) \/ y % 400 = 0
DaysInYear(y) == IF IsLeapYear(y) THEN 366 ELSE 365
DaysInMonth(y, m) ==
    IF m = 1 THEN (IF IsLeapYear(y) THEN 29 ELSE 28)
    ELSE IF m \in {3, 5, 8, 10} THEN 30 ELSE 31

RECURSIVE YearStart(_)
YearStart(y) == IF y <= 1970 THEN 0 ELSE YearStart(y - 1) + DaysInYear(y - 1)

\* Day number of the first of month m (0-based; m = 12 is next January).
RECURSIVE MonthStart(_, _)
MonthStart(y, m) ==
    IF m = 0 THEN YearStart(y) ELSE MonthStart(y, m - 1) + DaysInMonth(y, m - 1)

Years == 1970 .. 1973

\* The same day numbers, tabulated.
YearStarts == [y \in 1970 .. 1974 |-> YearStart(y)]
MonthStarts == [y \in Years |-> [m \in 0 .. 12 |-> MonthStart(y, m)]]

\* The host's time zone (the TZ the runtime starts with): one without
\* daylight saving, and one with the United States rule of 1970 - 1973, from
\* the last Sunday of April 02:00 to the last Sunday of October 02:00.
VARIABLE timeZone

TimeZones == {"UTC", "America/New_York"}

msPerHour == 1000 * 60 * 60

LastSunday(y, m) ==
    CHOOSE d \in (MonthStarts[y][m + 1] - 7) .. (MonthStarts[y][m + 1] - 1) :
      (d + 4) % 7 = 0

\* The days daylight saving starts and ends on, per year.
DstDays == {[from |-> LastSunday(y, 3), to |-> LastSunday(y, 9)] : y \in Years}

\* Whether daylight saving is in force at an instant: from 02:00 standard
\* time of the first day until 01:00 standard time (02:00 on the wall clock)
\* of the last.
InDst(date) ==
    /\ timeZone = "America/New_York"
    /\ \E s \in DstDays :
         /\ DateGE(date, MkDate(s.from, 2 * msPerHour))
         /\ DateGT(MkDate(s.to, msPerHour), date)

\* The wall-clock reading of an instant.
ToLocal(date) ==
    IF ~InDst(date) THEN date
    ELSE IF date.ms + msPerHour < msPerDay
      THEN MkDate(date.day, date.ms + msPerHour)
      ELSE MkDate(date.day + 1, date.ms + msPerHour - msPerDay)

\* The instant of a wall-clock reading.  A reading of the hour skipped in
\* April is taken on the standard-time clock, one of the hour repeated in
\* October as its first occurrence.
FromLocal(wall) ==
    IF /\ timeZone = "America/New_York"
       /\ \E s \in DstDays :
            /\ DateGE(wall, MkDate(s.from, 3 * msPerHour))
            /\ DateGT(MkDate(s.to, 2 * msPerHour), wall)
      THEN IF wall.ms >= msPerHour
             THEN MkDate(wall.day, wall.ms - msPerHour)
             ELSE MkDate(wall.day - 1, wall.ms - msPerHour + msPerDay)
      ELSE wall

getFullYear(date) ==
    LET day == ToLocal(date).day
    IN  CHOOSE y \in Years : YearStarts[y] <= day /\ day < YearStarts[y + 1]
getMonth(date) ==
    LET day == ToLocal(date).day
        y == getFullYear(date)
    IN  CHOOSE m \in 0 .. 11 : MonthStarts[y][m] <= day /\ day < MonthStarts[y][m + 1]
getDate(date) ==
    ToLocal(date).day - MonthStarts[getFullYear(date)][getMonth(date)] + 1
\* 0 = Sunday; 1970-01-01 was a Thursday
getDay(date) == (ToLocal(date).day + 4) % 7

setHours(date, h, m, s, ms) ==
    FromLocal(MkDate(ToLocal(date).day, ((h * 60 + m) * 60 + s) * 1000 + ms))
setDate(date, n) ==
    FromLocal(MkDate(MonthStarts[getFullYear(date)][getMonth(date)] + n - 1,
                     ToLocal(date).ms))
setMonth(date, month, n) ==
    FromLocal(MkDate(MonthStarts[getFullYear(date)][month] + n - 1,
                     ToLocal(date).ms))

\* date-fns differenceInCalendarDays: local calendar days from right to left
differenceInCalendarDays(left, right) == ToLocal(left).day - ToLocal(right).day

\* ------------------------------------------------------------------------
\* Strings
\* ------------------------------------------------------------------------
\* String.prototype.replace(pattern, replacement) with a string pattern:
\* the first occurrence only.
RECURSIVE IndexOfFrom(_, _, _)
IndexOfFrom(s, pat, i) ==
    IF i + Len(pat) - 1 > Len(s) THEN 0
    ELSE IF SubSeq(s, i, i + Len(pat) - 1) = pat THEN i
    ELSE IndexOfFrom(s, pat, i + 1)

StrReplace(s, pat, rep) ==
    LET i == IndexOfFrom(s, pat, 1)
    IN  IF i = 0 THEN s
        ELSE SubSeq(s, 1, i - 1) \o rep \o SubSeq(s, i + Len(pat), Len(s))

\* ------------------------------------------------------------------------
\* Progress calculation helpers
\* ------------------------------------------------------------------------
Units == {"days", "weeks", "months"}
Periods == {"daily", "weekly", "monthly", "yearly"}
Measurements == {"instances", "duration"}

\* history.reduce((latest, event) => event.timestamp > latest.timestamp ? event : latest)
RECURSIVE ReduceLatest(_, _, _)
ReduceLatest(history, i, latest) ==
    IF i > Len(history) THEN latest
    ELSE ReduceLatest(history, i + 1,
           IF DateGT(history[i].timestamp, latest.timestamp)
             THEN history[i] ELSE latest)

\* Mutant: the history taken to arrive most recent first.
findLastEvent_First(history) ==
    IF Len(history) = 0 THEN NULL ELSE Some(history[1])

\* undefined is NULL
findLastEvent(history) ==
    IF Len(history) = 0 THEN NULL
    ELSE Some(ReduceLatest(history, 2, history[1]))

unitToMs(count, unit) ==
    CASE unit = "days" -> DaysToMs(count)
      [] unit = "weeks" -> DaysToMs(count * 7)
      [] unit = "months" -> DaysToMs(count * 30)

\* Mutant: a month taken as 31 days.
unitToDays_Month31(count, unit) ==
    CASE unit = "days" -> count
      [] unit = "weeks" -> count * 7
      [] unit = "months" -> count * 31

unitToDays(count, unit) ==
    CASE unit = "days" -> count
      [] unit = "weeks" -> count * 7
      [] unit = "months" -> count * 30

RECURSIVE SumMinutes(_, _, _)
SumMinutes(events, i, sum) ==
    IF i > Len(events) THEN sum
    ELSE SumMinutes(events, i + 1,
           sum + (IF events[i].minutes = NULL THEN 0 ELSE ValueOf(events[i].minutes)))

\* Mutant: events counted whatever the measurement.
aggregateProgress_CountOnly(events, measurement) == Len(events)

aggregateProgress(events, measurement) ==
    IF measurement = "instances" THEN Len(events)
    ELSE SumMinutes(events, 1, 0)

\* Mutant: the week taken to start on Sunday.
getPeriodStart_SundayWeek(now, period) ==
    CASE period = "daily" -> setHours(now, 0, 0, 0, 0)
      [] period = "weekly" ->
           setHours(setDate(now, getDate(now) - getDay(now)), 0, 0, 0, 0)
      [] period = "monthly" -> setHours(setDate(now, 1), 0, 0, 0, 0)
      [] period = "yearly" -> setHours(setMonth(now, 0, 1), 0, 0, 0, 0)

getPeriodStart(now, period) ==
    CASE period = "daily" -> setHours(now, 0, 0, 0, 0)
      [] period = "weekly" ->
           LET day == getDay(now)
               diff == IF day = 0 THEN 6 ELSE day - 1
           IN  setHours(setDate(now, getDate(now) - diff), 0, 0, 0, 0)
      [] period = "monthly" -> setHours(setDate(now, 1), 0, 0, 0, 0)
      [] period = "yearly" -> setHours(setMonth(now, 0, 1), 0, 0, 0, 0)

\* Mutant: on a Sunday the week taken to end on the Sunday after.
getPeriodEnd_SundayRollsOver(now, period) ==
    CASE period = "daily" -> setHours(now, 23, 59, 59, 999)
      [] period = "weekly" ->
           setHours(setDate(now, getDate(now) + 7 - getDay(now)), 23, 59, 59, 999)
      [] period = "monthly" ->
           setHours(setMonth(now, getMonth(now) + 1, 0), 23, 59, 59, 999)
      [] period = "yearly" -> setHours(setMonth(now, 11, 31), 23, 59, 59, 999)

getPeriodEnd(now, period) ==
    CASE period = "daily" -> setHours(now, 23, 59, 59, 999)
      [] period = "weekly" ->
           LET day == getDay(now)
               daysUntilSunday == IF day = 0 THEN 0 ELSE 7 - day
           IN  setHours(setDate(now, getDate(now) + daysUntilSunday), 23, 59, 59, 999)
      [] period = "monthly" ->
           setHours(setMonth(now, getMonth(now) + 1, 0), 23, 59, 59, 999)
      [] period = "yearly" -> setHours(setMonth(now, 11, 31), 23, 59, 59, 999)

\* Mutant: the lower bound compared with > instead of >=.
FilterSince_Exclusive(history, start) ==
    SelectSeq(history, LAMBDA e : DateGT(e.timestamp, start))

\* history.filter((e) => e.timestamp >= start)
FilterSince(history, start) ==
    SelectSeq(history, LAMBDA e : DateGE(e.timestamp, start))

\* Mutant: the plural used for every number.
DayCount_AlwaysPlural(n) == ToString(n) \o " days"

\* `${n} day${n === 1 ? "" : "s"}`
DayCount(n) == ToString(n) \o " day" \o (IF n = 1 THEN "" ELSE "s")

\* ------------------------------------------------------------------------
\* Progress calculation
\* ------------------------------------------------------------------------
\* Mutant: an activity never done reported as complete.
getRecurringProgress_NeverDoneComplete(activity, rhythm, history, now) ==
    LET lastEvent == findLastEvent(history)
        intervalDays == unitToDays(rhythm.every, rhythm.unit)
    IN  IF lastEvent = NULL
          THEN [current |-> activity.target,
                target |-> activity.target,
                isOnTrack |-> FALSE,
                context |-> "Not started yet",
                daysOverdue |-> intervalDays]
          ELSE
            LET daysSinceLast ==
                    differenceInCalendarDays(now, ValueOf(lastEvent).timestamp)
                isOnTrack == daysSinceLast <= intervalDays
            IN  IF isOnTrack
                  THEN [current |-> activity.target,
                        target |-> activity.target,
                        isOnTrack |-> TRUE,
                        context |-> IF daysSinceLast = 0 THEN "today"
                                    ELSE DayCount(daysSinceLast) \o " ago",
                        daysUntilDue |-> intervalDays - daysSinceLast]
                  ELSE
                    LET daysOverdue == daysSinceLast - intervalDays
                    IN  [current |-> 0,
                         target |-> activity.target,
                         isOnTrack |-> FALSE,
                         context |-> DayCount(daysOverdue) \o " overdue",
                         daysOverdue |-> daysOverdue]

\* Mutant: an on-track status counting one completion instead of the target.
getRecurringProgress_CountsOne(activity, rhythm, history, now) ==
    LET lastEvent == findLastEvent(history)
        intervalDays == unitToDays(rhythm.every, rhythm.unit)
    IN  IF lastEvent = NULL
          THEN [current |-> 0,
                target |-> activity.target,
                isOnTrack |-> FALSE,
                context |-> "Not started yet",
                daysOverdue |-> 0]
          ELSE
            LET daysSinceLast ==
                    differenceInCalendarDays(now, ValueOf(lastEvent).timestamp)
                isOnTrack == daysSinceLast <= intervalDays
            IN  IF isOnTrack
                  THEN [current |-> 1,
                        target |-> activity.target,
                        isOnTrack |-> TRUE,
                        context |-> IF daysSinceLast = 0 THEN "today"
                                    ELSE DayCount(daysSinceLast) \o " ago",
                        daysUntilDue |-> intervalDays - daysSinceLast]
                  ELSE
                    LET daysOverdue == daysSinceLast - intervalDays
                    IN  [current |-> 0,
                         target |-> activity.target,
                         isOnTrack |-> FALSE,
                         context |-> DayCount(daysOverdue) \o " overdue",
                         daysOverdue |-> daysOverdue]

getRecurringProgress(activity, rhythm, history, now) ==
    LET lastEvent == findLastEvent(history)
        intervalDays == unitToDays(rhythm.every, rhythm.unit)
    IN  IF lastEvent = NULL
          THEN [current |-> 0,
                target |-> activity.target,
                isOnTrack |-> FALSE,
                context |-> "Not started yet",
                daysOverdue |-> 0]
          ELSE
            LET daysSinceLast ==
                    differenceInCalendarDays(now, ValueOf(lastEvent).timestamp)
                isOnTrack == daysSinceLast <= intervalDays
            IN  IF isOnTrack
                  THEN [current |-> activity.target,
                        target |-> activity.target,
                        isOnTrack |-> TRUE,
                        context |-> IF daysSinceLast = 0 THEN "today"
                                    ELSE DayCount(daysSinceLast) \o " ago",
                        daysUntilDue |-> intervalDays - daysSinceLast]
                  ELSE
                    LET daysOverdue == daysSinceLast - intervalDays
                    IN  [current |-> 0,
                         target |-> activity.target,
                         isOnTrack |-> FALSE,
                         context |-> DayCount(daysOverdue) \o " overdue",
                         daysOverdue |-> daysOverdue]

\* Mutant: the target has to be exceeded, not met.
getTrailingProgress_Exceed(activity, rhythm, history, now) ==
    LET windowMs == unitToMs(rhythm.count, rhythm.unit)
        windowStart == DateMinusMs(now, windowMs)
        eventsInWindow == FilterSince(history, windowStart)
        current == aggregateProgress(eventsInWindow, activity.measurement)
        periodLabel == "last " \o ToString(rhythm.count) \o " " \o rhythm.unit
    IN  [current |-> current,
         target |-> activity.target,
         isOnTrack |-> current > activity.target,
         context |-> periodLabel,
         periodLabel |-> periodLabel]

\* Mutant: the window closed at now, events after it left out.
getTrailingProgress_UpToNow(activity, rhythm, history, now) ==
    LET windowMs == unitToMs(rhythm.count, rhythm.unit)
        windowStart == DateMinusMs(now, windowMs)
        eventsInWindow == SelectSeq(FilterSince(history, windowStart),
                                    LAMBDA e : DateGE(now, e.timestamp))
        current == aggregateProgress(eventsInWindow, activity.measurement)
        periodLabel == "last " \o ToString(rhythm.count) \o " " \o rhythm.unit
    IN  [current |-> current,
         target |-> activity.target,
         isOnTrack |-> current >= activity.target,
         context |-> periodLabel,
         periodLabel |-> periodLabel]

getTrailingProgress(activity, rhythm, history, now) ==
    LET windowMs == unitToMs(rhythm.count, rhythm.unit)
        windowStart == DateMinusMs(now, windowMs)
        eventsInWindow == FilterSince(history, windowStart)
        current == aggregateProgress(eventsInWindow, activity.measurement)
        periodLabel == "last " \o ToString(rhythm.count) \o " " \o rhythm.unit
    IN  [current |-> current,
         target |-> activity.target,
         isOnTrack |-> current >= activity.target,
         context |-> periodLabel,
         periodLabel |-> periodLabel]

\* Mutant: only the events of the period up to now counted.
getCalendarProgress_UpToNow(activity, rhythm, history, now) ==
    LET periodStart == getPeriodStart(now, rhythm.period)
        periodEnd == getPeriodEnd(now, rhythm.period)
        eventsInPeriod == SelectSeq(FilterSince(history, periodStart),
                                    LAMBDA e : DateGE(now, e.timestamp))
        current == aggregateProgress(eventsInPeriod, activity.measurement)
        periodName == IF rhythm.period = "daily" THEN "day"
                      ELSE StrReplace(rhythm.period, "ly", "")
        periodLabel == "this " \o periodName
        msRemaining == MsBetween(periodEnd, now)
        daysRemaining == Max(0, CeilDays(msRemaining))
    IN  [current |-> current,
         target |-> activity.target,
         isOnTrack |-> current >= activity.target,
         context |-> periodLabel,
         daysRemaining |-> daysRemaining,
         periodLabel |-> periodLabel]

getCalendarProgress(activity, rhythm, history, now) ==
    LET periodStart == getPeriodStart(now, rhythm.period)
        periodEnd == getPeriodEnd(now, rhythm.period)
        eventsInPeriod == FilterSince(history, periodStart)
        current == aggregateProgress(eventsInPeriod, activity.measurement)
        periodName == IF rhythm.period = "daily" THEN "day"
                      ELSE StrReplace(rhythm.period, "ly", "")
        periodLabel == "this " \o periodName
        msRemaining == MsBetween(periodEnd, now)
        daysRemaining == Max(0, CeilDays(msRemaining))
    IN  [current |-> current,
         target |-> activity.target,
         isOnTrack |-> current >= activity.target,
         context |-> periodLabel,
         daysRemaining |-> daysRemaining,
         periodLabel |-> periodLabel]

getProgress(activity, rhythm, history, now) ==
    CASE rhythm.kind = "recurring" -> getRecurringProgress(activity, rhythm, history, now)
      [] rhythm.kind = "trailing" -> getTrailingProgress(activity, rhythm, history, now)
      [] rhythm.kind = "calendar" -> getCalendarProgress(activity, rhythm, history, now)

\* ------------------------------------------------------------------------
\* Inputs offered to the evaluator
\* ------------------------------------------------------------------------
Rhythms ==
    [kind : {"recurring"}, every : 1 .. MaxEvery, unit : Units]
      \cup [kind : {"trailing"}, count : 1 .. MaxEvery, unit : Units]
      \cup [kind : {"calendar"}, period : Periods]

EvalActivities == [target : 1 .. MaxTarget, measurement : Measurements]

\* Wednesday 1970-03-11 00:00:00.000 and Sunday 1970-03-01 23:59:59.999
Nows == {MkDate(69, 0), MkDate(59, msPerDay - 1)}

\* Days from the first day a rhythm's span covers to the day of now (every
\* instant of Nows lies in March 1970, whose first day is day 59).
SpanDays(rhythm, now) ==
    CASE rhythm.kind = "recurring" -> rhythm.every * (CASE rhythm.unit = "days" -> 1
                                                        [] rhythm.unit = "weeks" -> 7
                                                        [] rhythm.unit = "months" -> 30)
      [] rhythm.kind = "trailing" -> rhythm.count * (CASE rhythm.unit = "days" -> 1
                                                       [] rhythm.unit = "weeks" -> 7
                                                       [] rhythm.unit = "months" -> 30)
      [] rhythm.kind = "calendar" ->
           CASE rhythm.period = "daily" -> 0
             [] rhythm.period = "weekly" -> (now.day + 3) % 7
             [] rhythm.period = "monthly" -> now.day - 59
             [] rhythm.period = "yearly" -> now.day

\* Timestamps around the start of the span: now, the same time of day on the
\* span's first day and 1 ms before it, midnight of the first day and 1 ms
\* before it, and midnight two days before the first day.
Timestamps(rhythm, now) ==
    LET n == SpanDays(rhythm, now)
    IN  { now,
          MkDate(now.day - n, now.ms),
          IF now.ms = 0 THEN MkDate(now.day - n - 1, msPerDay - 1)
                        ELSE MkDate(now.day - n, now.ms - 1),
          MkDate(now.day - n, 0),
          MkDate(now.day - n - 1, msPerDay - 1),
          MkDate(now.day - n - 2, 0) }

EventsAt(ts) ==
    { [kind |-> "completion", minutes |-> NULL, timestamp |-> t] : t \in ts }
      \cup { [kind |-> "duration", minutes |-> Some(m), timestamp |-> t] :
               m \in 1 .. MaxMinutes, t \in ts }

\* ------------------------------------------------------------------------
\* State
\* ------------------------------------------------------------------------
VARIABLES
    activity,         \* the activity passed to getProgress
    rhythm,           \* its rhythm
    history,          \* the history passed to getProgress, in the caller's order
    now,              \* the reference instant
    status,           \* the ProgressStatus getProgress returned for them
                      \* (timeZone, declared with the calendar, belongs here)
    foreignKeys,      \* whether the SQLite build enforces foreign keys
    rhythmsTable,     \* rhythms rows by id
    activitiesTable,  \* activities rows by id
    historyTable,     \* history rows by id
    rhythmsSeq,       \* last id AUTOINCREMENT gave out, per table
    activitiesSeq,
    historySeq,
    errandsTable,     \* errands rows by id
    errandsSeq,
    listed,           \* the rows the last list call returned
    calls,            \* the completeErrand calls in flight, per caller
    last              \* the library call made last and how it ended

evalVars == <<activity, rhythm, history, now, status, timeZone>>
storeVars == <<foreignKeys, rhythmsTable, activitiesTable, historyTable,
               rhythmsSeq, activitiesSeq, historySeq>>
errandVars == <<errandsTable, errandsSeq, listed, calls>>

\* The callers that can have a completeErrand call in flight at once.
Callers == {1, 2}
\* No call in flight, none made yet; when a call has ended, id and outcome
\* keep what it was about and how it ended.
Idle == [pc |-> "idle", id |-> 0, timestamp |-> NULL, existing |-> NULL,
         outcome |-> "none"]
vars == <<evalVars, storeVars, errandVars, last>>

EmptyTable == [id \in {} |-> {}]
NoCall == [op |-> "none"]

EmptyStore ==
    /\ rhythmsTable = EmptyTable
    /\ activitiesTable = EmptyTable
    /\ historyTable = EmptyTable
    /\ rhythmsSeq = 0
    /\ activitiesSeq = 0
    /\ historySeq = 0
    /\ errandsTable = EmptyTable
    /\ errandsSeq = 0
    /\ listed = {}
    /\ calls = [c \in Callers |-> Idle]
    /\ last = NoCall

\* ------------------------------------------------------------------------
\* The evaluator on its own
\* ------------------------------------------------------------------------
InitProgress ==
    /\ timeZone = "UTC"
    /\ activity \in EvalActivities
    /\ rhythm \in Rhythms
    /\ now \in Nows
    /\ history = <<>>
    /\ status = getProgress(activity, rhythm, history, now)
    /\ foreignKeys = TRUE
    /\ EmptyStore

\* One more event is logged anywhere in time and the status is computed
\* again for the same activity, rhythm and instant.
Evaluate(event) ==
    /\ Len(history) < MaxHistory
    /\ history' = Append(history, event)
    /\ status' = getProgress(activity, rhythm, history', now)
    /\ UNCHANGED <<activity, rhythm, now, timeZone, storeVars, errandVars, last>>

NextProgress == \E event \in EventsAt(Timestamps(rhythm, now)) : Evaluate(event)

SpecProgress == InitProgress /\ [][NextProgress]_vars

\* ------------------------------------------------------------------------
\* The store: rhythms, activities and history
\* ------------------------------------------------------------------------
\* integer(..., { mode: "timestamp" }): a Date is stored as whole seconds
\* and read back as the Date of that second.
ToStoredTimestamp(date) == [date EXCEPT !.ms = date.ms - (date.ms % 1000)]

Insert(table, id, row) == [i \in DOMAIN table \cup {id} |-> IF i = id THEN row ELSE table[i]]
Delete(table, ids) == [i \in DOMAIN table \ ids |-> table[i]]

Framings == {"task", "pursuit"}
ActivityNames == {"read", "run"}
RhythmIds == 1 .. MaxRhythmRows + 1
ActivityIds == 1 .. MaxActivityRows + 1
HistoryIds == 1 .. MaxHistoryRows + 1
\* Wednesday 1970-03-11 00:00:00.000 and Tuesday 1970-03-10 12:00:00.999
LogTimestamps == {MkDate(69, 0), MkDate(68, 12 * 60 * 60 * 1000 + 999)}
\* minutes: number, unchecked; the log command passes parseInt of what was
\* typed, which is negative for "-1".
LogMinutes == -1 .. MaxMinutes

\* How a call ended: the message of the Error it threw, or NULL.  Of the
\* arguments of an update or a delete only the id is kept.
Threw(op, input, message) == [op |-> op, input |-> input, error |-> Some(message)]
Returned(op, input, value) == [op |-> op, input |-> input, error |-> NULL]

InitStore ==
    /\ timeZone = "UTC"
    /\ activity = [target |-> 1, measurement |-> "instances"]
    /\ rhythm = [kind |-> "calendar", period |-> "daily"]
    /\ now = MkDate(69, 0)
    /\ history = <<>>
    /\ status = getProgress(activity, rhythm, history, now)
    /\ foreignKeys \in BOOLEAN
    /\ EmptyStore

InsertRhythm(op, input, row) ==
    /\ rhythmsSeq < MaxRhythmRows
    /\ rhythmsSeq' = rhythmsSeq + 1
    /\ rhythmsTable' = Insert(rhythmsTable, rhythmsSeq', row)
    /\ last' = Returned(op, input, [id |-> rhythmsSeq'] @@ row)
    /\ UNCHANGED <<evalVars, errandVars, foreignKeys, activitiesTable, historyTable,
                   activitiesSeq, historySeq>>

createTrailingRhythm(input) ==
    InsertRhythm("createTrailingRhythm", input,
        [kind |-> "trailing",
         trailingCount |-> Some(input.count), trailingUnit |-> Some(input.unit),
         recurringEvery |-> NULL, recurringUnit |-> NULL, calendarPeriod |-> NULL])

createRecurringRhythm(input) ==
    InsertRhythm("createRecurringRhythm", input,
        [kind |-> "recurring",
         trailingCount |-> NULL, trailingUnit |-> NULL,
         recurringEvery |-> Some(input.every), recurringUnit |-> Some(input.unit),
         calendarPeriod |-> NULL])

createCalendarRhythm(input) ==
    InsertRhythm("createCalendarRhythm", input,
        [kind |-> "calendar",
         trailingCount |-> NULL, trailingUnit |-> NULL,
         recurringEvery |-> NULL, recurringUnit |-> NULL,
         calendarPeriod |-> Some(input.period)])

\* rhythm_id references rhythms(id); activity_id references activities(id)
\* ON DELETE CASCADE.  A violated constraint makes the statement throw.
RhythmReferenced(id) == \E a \in DOMAIN activitiesTable : activitiesTable[a].rhythmId = id

deleteRhythm(id) ==
    /\ IF foreignKeys /\ id \in DOMAIN rhythmsTable /\ RhythmReferenced(id)
         THEN /\ last' = Threw("deleteRhythm", id, "FOREIGN KEY constraint failed")
              /\ UNCHANGED rhythmsTable
         ELSE /\ rhythmsTable' = Delete(rhythmsTable, {id})
              /\ last' = Returned("deleteRhythm", id, id \in DOMAIN rhythmsTable)
    /\ UNCHANGED <<evalVars, errandVars, foreignKeys, activitiesTable, historyTable,
                   rhythmsSeq, activitiesSeq, historySeq>>

\* Mutant: the framing / measurement pair is not checked.
createActivity_Unchecked(input) ==
    /\ IF foreignKeys /\ input.rhythmId \notin DOMAIN rhythmsTable
         THEN /\ last' = Threw("createActivity", input, "FOREIGN KEY constraint failed")
              /\ UNCHANGED <<activitiesTable, activitiesSeq>>
         ELSE /\ activitiesSeq < MaxActivityRows
              /\ activitiesSeq' = activitiesSeq + 1
              /\ activitiesTable' = Insert(activitiesTable, activitiesSeq', input)
              /\ last' = Returned("createActivity", input,
                                  [id |-> activitiesSeq'] @@ input)
    /\ UNCHANGED <<evalVars, errandVars, foreignKeys, rhythmsTable, historyTable,
                   rhythmsSeq, historySeq>>

createActivity(input) ==
    /\ IF input.framing = "task" /\ input.measurement # "instances"
         THEN /\ last' = Threw("createActivity", input, "Tasks must use instances measurement")
              /\ UNCHANGED <<activitiesTable, activitiesSeq>>
         ELSE IF foreignKeys /\ input.rhythmId \notin DOMAIN rhythmsTable
           THEN /\ last' = Threw("createActivity", input, "FOREIGN KEY constraint failed")
                /\ UNCHANGED <<activitiesTable, activitiesSeq>>
           ELSE /\ activitiesSeq < MaxActivityRows
                /\ activitiesSeq' = activitiesSeq + 1
                /\ activitiesTable' = Insert(activitiesTable, activitiesSeq', input)
                /\ last' = Returned("createActivity", input,
                                    [id |-> activitiesSeq'] @@ input)
    /\ UNCHANGED <<evalVars, errandVars, foreignKeys, rhythmsTable, historyTable,
                   rhythmsSeq, historySeq>>

\* Mutant: the row is replaced rather than updated, which deletes the old
\* row and with it the events that refer to it.
updateActivity_Replace(id, changes) ==
    /\ IF /\ foreignKeys
          /\ id \in DOMAIN activitiesTable
          /\ "rhythmId" \in DOMAIN changes
          /\ changes.rhythmId \notin DOMAIN rhythmsTable
         THEN /\ last' = Threw("updateActivity", id,
                               "FOREIGN KEY constraint failed")
              /\ UNCHANGED <<activitiesTable, historyTable>>
         ELSE IF id \in DOMAIN activitiesTable
           THEN /\ activitiesTable' =
                     [activitiesTable EXCEPT ![id] = changes @@ activitiesTable[id]]
                /\ historyTable' =
                     Delete(historyTable,
                            {h \in DOMAIN historyTable : historyTable[h].activityId = id})
                /\ last' = Returned("updateActivity", id,
                                    Some([id |-> id] @@ activitiesTable'[id]))
           ELSE /\ last' = Returned("updateActivity", id, NULL)
                /\ UNCHANGED <<activitiesTable, historyTable>>
    /\ UNCHANGED <<evalVars, errandVars, foreignKeys, rhythmsTable,
                   rhythmsSeq, activitiesSeq, historySeq>>

\* changes: a record of the columns to set.
updateActivity(id, changes) ==
    /\ IF /\ foreignKeys
          /\ id \in DOMAIN activitiesTable
          /\ "rhythmId" \in DOMAIN changes
          /\ changes.rhythmId \notin DOMAIN rhythmsTable
         THEN /\ last' = Threw("updateActivity", id,
                               "FOREIGN KEY constraint failed")
              /\ UNCHANGED activitiesTable
         ELSE IF id \in DOMAIN activitiesTable
           THEN /\ activitiesTable' =
                     [activitiesTable EXCEPT ![id] = changes @@ activitiesTable[id]]
                /\ last' = Returned("updateActivity", id,
                                    Some([id |-> id] @@ activitiesTable'[id]))
           ELSE /\ last' = Returned("updateActivity", id, NULL)
                /\ UNCHANGED activitiesTable
    /\ UNCHANGED <<evalVars, errandVars, foreignKeys, rhythmsTable, historyTable,
                   rhythmsSeq, activitiesSeq, historySeq>>

renameActivity(id, newName) == updateActivity(id, [name |-> newName])

deleteActivity(id) ==
    /\ activitiesTable' = Delete(activitiesTable, {id})
    /\ historyTable' =
         IF foreignKeys /\ id \in DOMAIN activitiesTable
           THEN Delete(historyTable,
                       {h \in DOMAIN historyTable : historyTable[h].activityId = id})
           ELSE historyTable
    /\ last' = Returned("deleteActivity", id, id \in DOMAIN activitiesTable)
    /\ UNCHANGED <<evalVars, errandVars, foreignKeys, rhythmsTable,
                   rhythmsSeq, activitiesSeq, historySeq>>

\* Mutant: without AUTOINCREMENT, the id is one more than the largest id in
\* the table.
InsertHistory_ReuseIds(op, input, row) ==
    /\ historySeq < MaxHistoryRows
    /\ historySeq' = historySeq + 1
    /\ LET id == IF historyTable = EmptyTable THEN 1
                 ELSE 1 + CHOOSE h \in DOMAIN historyTable :
                            \A g \in DOMAIN historyTable : g <= h
       IN  /\ historyTable' = Insert(historyTable, id, row)
           /\ last' = Returned(op, input, [id |-> id] @@ row)

InsertHistory(op, input, row) ==
    /\ historySeq < MaxHistoryRows
    /\ historySeq' = historySeq + 1
    /\ historyTable' = Insert(historyTable, historySeq', row)
    /\ last' = Returned(op, input, [id |-> historySeq'] @@ row)

\* Mutant: the measurement of the activity is not looked at.
recordCompletion_AnyMeasurement(input) ==
    /\ IF input.activityId \notin DOMAIN activitiesTable
         THEN /\ last' = Threw("recordCompletion", input, "Activity not found")
              /\ UNCHANGED <<historyTable, historySeq>>
         ELSE InsertHistory("recordCompletion", input,
                  [activityId |-> input.activityId,
                   kind |-> "completion",
                   minutes |-> NULL,
                   timestamp |-> ToStoredTimestamp(input.timestamp)])
    /\ UNCHANGED <<evalVars, errandVars, foreignKeys, rhythmsTable, activitiesTable,
                   rhythmsSeq, activitiesSeq>>

recordCompletion(input) ==
    /\ IF input.activityId \notin DOMAIN activitiesTable
         THEN /\ last' = Threw("recordCompletion", input, "Activity not found")
              /\ UNCHANGED <<historyTable, historySeq>>
         ELSE IF activitiesTable[input.activityId].measurement = "duration"
           THEN /\ last' = Threw("recordCompletion", input,
                     "Cannot record completion for duration-measurement activity")
                /\ UNCHANGED <<historyTable, historySeq>>
           ELSE InsertHistory("recordCompletion", input,
                    [activityId |-> input.activityId,
                     kind |-> "completion",
                     minutes |-> NULL,
                     timestamp |-> ToStoredTimestamp(input.timestamp)])
    /\ UNCHANGED <<evalVars, errandVars, foreignKeys, rhythmsTable, activitiesTable,
                   rhythmsSeq, activitiesSeq>>

recordDuration(input) ==
    /\ IF input.activityId \notin DOMAIN activitiesTable
         THEN /\ last' = Threw("recordDuration", input, "Activity not found")
              /\ UNCHANGED <<historyTable, historySeq>>
         ELSE IF activitiesTable[input.activityId].measurement = "instances"
           THEN /\ last' = Threw("recordDuration", input,
                     "Cannot record duration for instances-measurement activity")
                /\ UNCHANGED <<historyTable, historySeq>>
           ELSE InsertHistory("recordDuration", input,
                    [activityId |-> input.activityId,
                     kind |-> "duration",
                     minutes |-> Some(input.minutes),
                     timestamp |-> ToStoredTimestamp(input.timestamp)])
    /\ UNCHANGED <<evalVars, errandVars, foreignKeys, rhythmsTable, activitiesTable,
                   rhythmsSeq, activitiesSeq>>

\* The results getActivityHistory(activityId) can return without options:
\* the events of the activity, most recent first; the order of events with
\* equal timestamps is the database's.
getActivityHistory(table, activityId) ==
    LET ids == {h \in DOMAIN table : table[h].activityId = activityId}
        n == Cardinality(ids)
    IN  {[i \in 1 .. n |-> [id |-> order[i]] @@ table[order[i]]] :
           order \in {o \in [1 .. n -> ids] :
                        /\ \A i, j \in 1 .. n : o[i] = o[j] => i = j
                        /\ \A i, j \in 1 .. n :
                             i < j => DateGE(table[o[i]].timestamp,
                                             table[o[j]].timestamp)}}

deleteHistoryEvent(id) ==
    /\ historyTable' = Delete(historyTable, {id})
    /\ last' = Returned("deleteHistoryEvent", id, id \in DOMAIN historyTable)
    /\ UNCHANGED <<evalVars, errandVars, foreignKeys, rhythmsTable, activitiesTable,
                   rhythmsSeq, activitiesSeq, historySeq>>

ActivityInputs ==
    [name : {"read"}, framing : Framings, rhythmId : RhythmIds,
     target : {1}, measurement : Measurements]

ActivityChanges ==
    [measurement : Measurements]
      \cup [framing : Framings, measurement : Measurements]
      \cup [rhythmId : RhythmIds]

Next ==
    \/ \E unit \in {"days"} : createTrailingRhythm([count |-> 1, unit |-> unit])
    \/ \E unit \in {"weeks"} : createRecurringRhythm([every |-> 1, unit |-> unit])
    \/ \E period \in {"weekly"} : createCalendarRhythm([period |-> period])
    \/ \E id \in RhythmIds : deleteRhythm(id)
    \/ \E input \in ActivityInputs : createActivity(input)
    \/ \E id \in ActivityIds, changes \in ActivityChanges : updateActivity(id, changes)
    \/ \E id \in ActivityIds, newName \in ActivityNames : renameActivity(id, newName)
    \/ \E id \in ActivityIds : deleteActivity(id)
    \/ \E id \in ActivityIds, ts \in LogTimestamps :
         recordCompletion([activityId |-> id, timestamp |-> ts])
    \/ \E id \in ActivityIds, ts \in LogTimestamps, minutes \in LogMinutes :
         recordDuration([activityId |-> id, minutes |-> minutes, timestamp |-> ts])
    \/ \E id \in HistoryIds : deleteHistoryEvent(id)

Spec == InitStore /\ [][Next]_vars

\* ------------------------------------------------------------------------
\* The forms: an activity and its rhythm persisted together
\* ------------------------------------------------------------------------
\* RhythmFormData, one of each kind, and ActivityFormData.
RhythmForms ==
    {[kind |-> "calendar", period |-> "weekly"],
     [kind |-> "trailing", count |-> 1, unit |-> "days"],
     [kind |-> "recurring", every |-> 1, unit |-> "weeks"]}

ActivityForms ==
    [name : {"run"}, framing : Framings, measurement : Measurements,
     rhythm : RhythmForms, target : {1}]

FormRhythmIds == 1 .. MaxRhythmRows + MaxForms + 1

\* The row create*Rhythm inserts for the form's rhythm.
RhythmRow(form) ==
    [kind |-> form.kind,
     trailingCount |-> IF form.kind = "trailing" THEN Some(form.count) ELSE NULL,
     trailingUnit |-> IF form.kind = "trailing" THEN Some(form.unit) ELSE NULL,
     recurringEvery |-> IF form.kind = "recurring" THEN Some(form.every) ELSE NULL,
     recurringUnit |-> IF form.kind = "recurring" THEN Some(form.unit) ELSE NULL,
     calendarPeriod |-> IF form.kind = "calendar" THEN Some(form.period) ELSE NULL]

\* The columns both forms pass on to the activities library.
FormColumns(form, rhythmId) ==
    [name |-> form.name, framing |-> form.framing, rhythmId |-> rhythmId,
     target |-> form.target, measurement |-> form.measurement]

\* persistRhythm, then createActivity with the id of the new row.  When
\* createActivity throws, the rhythm row is already there.
persistNewActivity(form) ==
    /\ rhythmsSeq < MaxRhythmRows + MaxForms
    /\ rhythmsSeq' = rhythmsSeq + 1
    /\ rhythmsTable' = Insert(rhythmsTable, rhythmsSeq', RhythmRow(form.rhythm))
    /\ IF form.framing = "task" /\ form.measurement # "instances"
         THEN /\ last' = Threw("persistNewActivity", form,
                               "Tasks must use instances measurement")
              /\ UNCHANGED <<activitiesTable, activitiesSeq>>
         ELSE /\ activitiesSeq < MaxActivityRows + MaxForms
              /\ activitiesSeq' = activitiesSeq + 1
              /\ activitiesTable' = Insert(activitiesTable, activitiesSeq',
                                           FormColumns(form, rhythmsSeq'))
              /\ last' = Returned("persistNewActivity", form, activitiesSeq')
    /\ UNCHANGED <<evalVars, errandVars, foreignKeys, historyTable, historySeq>>

\* persistRhythm, then updateActivity, then deleteRhythm of the old rhythm
\* when the new id differs from it.  When deleteRhythm throws, the new
\* rhythm and the update are already there.
persistActivityUpdate(activityId, oldRhythmId, form) ==
    /\ rhythmsSeq < MaxRhythmRows + MaxForms
    /\ rhythmsSeq' = rhythmsSeq + 1
    /\ LET newRhythmId == rhythmsSeq'
           inserted == Insert(rhythmsTable, newRhythmId, RhythmRow(form.rhythm))
           updated ==
               IF activityId \in DOMAIN activitiesTable
                 THEN [activitiesTable EXCEPT ![activityId] =
                         FormColumns(form, newRhythmId) @@ activitiesTable[activityId]]
                 ELSE activitiesTable
           referenced == \E a \in DOMAIN updated : updated[a].rhythmId = oldRhythmId
       IN  /\ activitiesTable' = updated
           /\ IF newRhythmId = oldRhythmId
                THEN /\ rhythmsTable' = inserted
                     /\ last' = Returned("persistActivityUpdate", activityId, activityId)
                ELSE IF foreignKeys /\ oldRhythmId \in DOMAIN inserted /\ referenced
                  THEN /\ rhythmsTable' = inserted
                       /\ last' = Threw("persistActivityUpdate", activityId,
                                        "FOREIGN KEY constraint failed")
                  ELSE /\ rhythmsTable' = Delete(inserted, {oldRhythmId})
                       /\ last' = Returned("persistActivityUpdate", activityId,
                                           activityId)
    /\ UNCHANGED <<evalVars, errandVars, foreignKeys, historyTable,
                   activitiesSeq, historySeq>>

\* The forms next to the library operations on rhythms and activities.
NextForms ==
    \/ \E unit \in {"days"} : createTrailingRhythm([count |-> 1, unit |-> unit])
    \/ \E id \in RhythmIds : deleteRhythm(id)
    \/ \E input \in ActivityInputs : createActivity(input)
    \/ \E id \in ActivityIds, rhythmId \in RhythmIds :
         updateActivity(id, [rhythmId |-> rhythmId])
    \/ \E id \in ActivityIds : deleteActivity(id)
    \/ \E form \in ActivityForms : persistNewActivity(form)
    \/ \E id \in ActivityIds, old \in FormRhythmIds, form \in ActivityForms :
         persistActivityUpdate(id, old, form)

SpecForms == InitStore /\ [][NextForms]_vars

\* The edits of an activity next to the logging of its events.
NextEdits ==
    \/ \E unit \in {"days"} : createTrailingRhythm([count |-> 1, unit |-> unit])
    \/ \E input \in ActivityInputs : createActivity(input)
    \/ \E id \in ActivityIds, changes \in ActivityChanges : updateActivity(id, changes)
    \/ \E id \in ActivityIds, newName \in ActivityNames : renameActivity(id, newName)
    \/ \E id \in ActivityIds, old \in FormRhythmIds,
          form \in {f \in ActivityForms : f.rhythm.kind = "calendar"} :
         persistActivityUpdate(id, old, form)
    \/ \E id \in ActivityIds, ts \in LogTimestamps :
         recordCompletion([activityId |-> id, timestamp |-> ts])
    \/ \E id \in ActivityIds, ts \in LogTimestamps, minutes \in {MaxMinutes} :
         recordDuration([activityId |-> id, minutes |-> minutes, timestamp |-> ts])
    \/ \E id \in HistoryIds : deleteHistoryEvent(id)

SpecEdits == InitStore /\ [][NextEdits]_vars

\* ------------------------------------------------------------------------
\* The store: errands
\* ------------------------------------------------------------------------
VISIBILITY_WINDOW_MS == DaysToMs(3)

ErrandIds == 1 .. MaxErrandRows + 1
ErrandNames == {"post"}
\* The clock when an errand is created: Sunday 1970-03-01 09:00:00.250
ErrandClock == {MkDate(59, 9 * 60 * 60 * 1000 + 250)}
\* Wednesday 1970-03-11 00:00:00.000 and 00:00:00.500
ListNows == {MkDate(69, 0), MkDate(69, 500)}
\* Around three days before them: Sunday 1970-03-08 00:00:00.000, .999 and
\* 00:00:01.000, and Saturday 23:59:59.000
ErrandTimestamps ==
    {MkDate(66, 0), MkDate(66, 999), MkDate(66, 1000), MkDate(65, msPerDay - 1000)}

\* select().from(errands).where(...).all(): the rows, each with its id.
SelectErrands(ids) == {[id |-> i] @@ errandsTable[i] : i \in ids}

createErrand(input) ==
    /\ errandsSeq < MaxErrandRows
    /\ \E clock \in ErrandClock :
         /\ errandsSeq' = errandsSeq + 1
         /\ errandsTable' = Insert(errandsTable, errandsSeq',
                                   [name |-> input.name,
                                    createdAt |-> ToStoredTimestamp(clock),
                                    completedAt |-> NULL])
    /\ last' = Returned("createErrand", input, errandsTable'[errandsSeq'])
    /\ UNCHANGED <<evalVars, storeVars, listed, calls>>

getErrand(id) == IF id \in DOMAIN errandsTable THEN Some(errandsTable[id]) ELSE NULL

\* gt(errands.completedAt, cutoff): the cutoff is bound as the column stores
\* it, in whole seconds.
listErrands_Inclusive(options) ==
    IF options.includeExpired
      THEN SelectErrands(DOMAIN errandsTable)
      ELSE LET cutoff == DateMinusMs(options.now, VISIBILITY_WINDOW_MS)
           IN  SelectErrands(
                 {i \in DOMAIN errandsTable :
                    \/ errandsTable[i].completedAt = NULL
                    \/ /\ errandsTable[i].completedAt # NULL
                       /\ DateGE(ValueOf(errandsTable[i].completedAt),
                                 ToStoredTimestamp(cutoff))})

listErrands(options) ==
    IF options.includeExpired
      THEN SelectErrands(DOMAIN errandsTable)
      ELSE LET cutoff == DateMinusMs(options.now, VISIBILITY_WINDOW_MS)
           IN  SelectErrands(
                 {i \in DOMAIN errandsTable :
                    \/ errandsTable[i].completedAt = NULL
                    \/ /\ errandsTable[i].completedAt # NULL
                       /\ DateGT(ValueOf(errandsTable[i].completedAt),
                                 ToStoredTimestamp(cutoff))})

listPendingErrands ==
    SelectErrands({i \in DOMAIN errandsTable : errandsTable[i].completedAt = NULL})

\* A call of listErrands.
ListErrands(options) ==
    /\ listed' = listErrands(options)
    /\ last' = Returned("listErrands", options, listed')
    /\ UNCHANGED <<evalVars, storeVars, errandsTable, errandsSeq, calls>>

\* A call of listPendingErrands.
ListPendingErrands ==
    /\ listed' = listPendingErrands
    /\ last' = Returned("listPendingErrands", NULL, listed')
    /\ UNCHANGED <<evalVars, storeVars, errandsTable, errandsSeq, calls>>

\* Mutant: an errand that is already completed is completed again.
completeErrand_Overwrite(id, timestamp) ==
    /\ LET existing == getErrand(id)
       IN  IF existing = NULL
             THEN /\ last' = Threw("completeErrand", id,
                         "Errand with id " \o ToString(id) \o " not found")
                  /\ UNCHANGED errandsTable
             ELSE /\ errandsTable' =
                       [errandsTable EXCEPT
                          ![id].completedAt = Some(ToStoredTimestamp(timestamp))]
                  /\ last' = Returned("completeErrand", id, errandsTable'[id])
    /\ UNCHANGED <<evalVars, storeVars, errandsSeq, listed, calls>>

completeErrand(id, timestamp) ==
    /\ LET existing == getErrand(id)
       IN  IF existing = NULL
             THEN /\ last' = Threw("completeErrand", id,
                         "Errand with id " \o ToString(id) \o " not found")
                  /\ UNCHANGED errandsTable
             ELSE IF ValueOf(existing).completedAt # NULL
               THEN /\ last' = Threw("completeErrand", id,
                           "Errand \"" \o ValueOf(existing).name
                              \o "\" is already completed")
                    /\ UNCHANGED errandsTable
               ELSE /\ errandsTable' =
                         [errandsTable EXCEPT
                            ![id].completedAt = Some(ToStoredTimestamp(timestamp))]
                    /\ last' = Returned("completeErrand", id, errandsTable'[id])
    /\ UNCHANGED <<evalVars, storeVars, errandsSeq, listed, calls>>

\* completeErrand as the two awaited statements it is made of, so that the
\* calls of several callers interleave: first the read of the errand ...
completeErrandRead(c, id, timestamp) ==
    /\ calls[c].pc = "idle"
    /\ calls' = [calls EXCEPT ![c] = [pc |-> "read", id |-> id,
                                      timestamp |-> Some(timestamp),
                                      existing |-> getErrand(id),
                                      outcome |-> "none"]]
    /\ UNCHANGED <<evalVars, storeVars, errandsTable, errandsSeq, listed, last>>

\* ... then the checks on what was read and the update of the row by id,
\* which returns nothing when the row is gone by now.
completeErrandWrite(c) ==
    /\ calls[c].pc = "read"
    /\ LET id == calls[c].id
           existing == calls[c].existing
           Done(outcome) == calls' = [calls EXCEPT ![c] = [Idle EXCEPT !.id = id,
                                                          !.outcome = outcome]]
       IN  IF existing = NULL
             THEN /\ last' = Threw("completeErrand", id,
                         "Errand with id " \o ToString(id) \o " not found")
                  /\ Done("not found")
                  /\ UNCHANGED errandsTable
             ELSE IF ValueOf(existing).completedAt # NULL
               THEN /\ last' = Threw("completeErrand", id,
                           "Errand \"" \o ValueOf(existing).name
                              \o "\" is already completed")
                    /\ Done("already completed")
                    /\ UNCHANGED errandsTable
               ELSE IF id \notin DOMAIN errandsTable
                 THEN /\ last' = Returned("completeErrand", id, NULL)
                      /\ Done("nothing")
                      /\ UNCHANGED errandsTable
                 ELSE /\ errandsTable' =
                           [errandsTable EXCEPT
                              ![id].completedAt =
                                 Some(ToStoredTimestamp(ValueOf(calls[c].timestamp)))]
                      /\ last' = Returned("completeErrand", id, errandsTable'[id])
                      /\ Done("completed")
    /\ UNCHANGED <<evalVars, storeVars, errandsSeq, listed>>

deleteErrand(id) ==
    /\ errandsTable' = Delete(errandsTable, {id})
    /\ last' = Returned("deleteErrand", id, id \in DOMAIN errandsTable)
    /\ UNCHANGED <<evalVars, storeVars, errandsSeq, listed, calls>>

ListOptions == [includeExpired : BOOLEAN, now : ListNows]

NextErrands ==
    \/ \E name \in ErrandNames : createErrand([name |-> name])
    \/ \E id \in ErrandIds, timestamp \in ErrandTimestamps : completeErrand(id, timestamp)
    \/ \E id \in ErrandIds : deleteErrand(id)
    \/ \E options \in ListOptions : ListErrands(options)
    \/ ListPendingErrands

SpecErrands == InitStore /\ [][NextErrands]_vars

\* Two callers completing errands at the same time, each with its own
\* timestamp.
CallerTimestamps == <<MkDate(66, 0), MkDate(66, 1000)>>

NextConcurrent ==
    \/ \E name \in ErrandNames : createErrand([name |-> name])
    \/ \E c \in Callers, id \in ErrandIds :
         completeErrandRead(c, id, CallerTimestamps[c])
    \/ \E c \in Callers : completeErrandWrite(c)
    \/ \E id \in ErrandIds : deleteErrand(id)

SpecConcurrent == InitStore /\ [][NextConcurrent]_vars

\* ------------------------------------------------------------------------
\* The status loader
\* ------------------------------------------------------------------------
\* A rhythms row as the domain Rhythm.
toRhythm(row) ==
    CASE row.kind = "trailing" ->
           [kind |-> "trailing", count |-> ValueOf(row.trailingCount),
            unit |-> ValueOf(row.trailingUnit)]
      [] row.kind = "recurring" ->
           [kind |-> "recurring", every |-> ValueOf(row.recurringEvery),
            unit |-> ValueOf(row.recurringUnit)]
      [] row.kind = "calendar" ->
           [kind |-> "calendar", period |-> ValueOf(row.calendarPeriod)]

\* The progress loadActivityWithProgress(activityId, at) can report over
\* the given tables: nothing when the activity or its rhythm is missing, and
\* otherwise getProgress over the history in an order the database can
\* return it in.
loadActivityWithProgress(activities, rhythms, events, activityId, at) ==
    IF activityId \notin DOMAIN activities THEN {}
    ELSE IF activities[activityId].rhythmId \notin DOMAIN rhythms THEN {}
    ELSE {getProgress(activities[activityId],
                      toRhythm(rhythms[activities[activityId].rhythmId]), h, at) :
            h \in getActivityHistory(events, activityId)}

\* Instants the status is asked for: 1970-03-11 and 1970-03-12, 00:00.
LoadNows == {MkDate(69, 0), MkDate(70, 0)}

\* ------------------------------------------------------------------------
\* The status loader called again as time passes
\* (loadActivityWithProgress: now defaults to new Date() at each call)
\* ------------------------------------------------------------------------
MaxAdvanceDays == 1
CalendarLastDay == 795
ClockLastDay == 372

\* Instants of a day the clock is read at, on the standard-time clock:
\* midnight, 1 ms after it, 23:00 (midnight on the wall clock during daylight
\* saving) and the last millisecond of the day; the next reading is at most
\* MaxAdvanceDays days later.
PartsOfDay == {0, 1, 23 * msPerHour, msPerDay - 1}
ClockInstants(lastDay) ==
    {MkDate(d, p) : d \in now.day .. now.day + MaxAdvanceDays, p \in PartsOfDay}
      \cap [day : 0 .. lastDay, ms : PartsOfDay]

\* Wednesday 1970-12-30 00:00:00.000
ClockStart == MkDate(363, 0)

\* Events logged on 1970-12-02 00:00:00.000 and 1970-12-31 23:59:59.999
ClockTimestamps == {MkDate(335, 0), MkDate(364, msPerDay - 1)}

\* Histories as getActivityHistory returns them: latest first.
ClockHistories ==
    {h \in UNION {[1 .. n -> EventsAt(ClockTimestamps)] : n \in 0 .. MaxHistory} :
       \A i, j \in 1 .. Len(h) : i < j => DateGE(h[i].timestamp, h[j].timestamp)}

\* The loader runs again at a later instant t over the same activity, rhythm
\* and history.
Advance(t) ==
    /\ DateGT(t, now)
    /\ now' = t
    /\ status' = getProgress(activity, rhythm, history, now')
    /\ UNCHANGED <<activity, rhythm, history, timeZone, storeVars, errandVars, last>>

\* Calendar rhythms from 1970-01-01 to 1972-03-06, past the leap day of 1972,
\* in both time zones; nothing is logged, so the activity is a fixed one.
InitCalendar ==
    /\ timeZone \in TimeZones
    /\ activity = [target |-> 1, measurement |-> "instances"]
    /\ rhythm \in [kind : {"calendar"}, period : Periods]
    /\ now = MkDate(0, 0)
    /\ history = <<>>
    /\ status = getProgress(activity, rhythm, history, now)
    /\ foreignKeys = TRUE
    /\ EmptyStore

NextCalendar == \E t \in ClockInstants(CalendarLastDay) : Advance(t)

SpecCalendar == InitCalendar /\ [][NextCalendar]_vars

\* Every rhythm over a fixed history from 1970-12-30 to 1971-01-08: the year,
\* the month and the week change, and the first event leaves a 30-day span.
InitClock ==
    /\ timeZone = "UTC"
    /\ activity \in EvalActivities
    /\ rhythm \in Rhythms
    /\ now = ClockStart
    /\ history \in ClockHistories
    /\ status = getProgress(activity, rhythm, history, now)
    /\ foreignKeys = TRUE
    /\ EmptyStore

NextClock == \E t \in ClockInstants(ClockLastDay) : Advance(t)

SpecClock == InitClock /\ [][NextClock]_vars

\* ------------------------------------------------------------------------
\* The status display and the rhythm descriptions
\* ------------------------------------------------------------------------
\* progress.field !== undefined
Defined(progress, field) == field \in DOMAIN progress
\* progress.field === n
FieldIs(progress, field, n) == Defined(progress, field) /\ progress[field] = n

\* The three groups of displayFullStatus.
needsAttention(progress) ==
    Defined(progress, "daysOverdue") \/ FieldIs(progress, "daysUntilDue", 0)

inProgress(progress) ==
    /\ ~Defined(progress, "daysOverdue")
    /\ ~FieldIs(progress, "daysUntilDue", 0)
    /\ ~progress.isOnTrack

\* Mutant: an on-track status is complete whenever it is not overdue.
complete_DueTodayToo(progress) ==
    /\ ~Defined(progress, "daysOverdue")
    /\ progress.isOnTrack

complete(progress) ==
    /\ ~Defined(progress, "daysOverdue")
    /\ ~FieldIs(progress, "daysUntilDue", 0)
    /\ progress.isOnTrack

formatRhythm(r) ==
    CASE r.kind = "trailing" -> "last " \o ToString(r.count) \o " " \o r.unit
      [] r.kind = "recurring" -> "every " \o ToString(r.every) \o " " \o r.unit
      [] r.kind = "calendar" -> "per " \o StrReplace(r.period, "ly", "")

formatContext(progress, r) ==
    IF r.kind = "recurring"
      THEN IF FieldIs(progress, "daysUntilDue", 0)
             THEN "last done " \o progress.context
           ELSE IF progress.isOnTrack /\ Defined(progress, "daysUntilDue")
             THEN IF progress.daysUntilDue = 1 THEN "due tomorrow"
                  ELSE "due in " \o ToString(progress.daysUntilDue) \o " days"
           ELSE formatRhythm(r)
    ELSE IF r.kind = "calendar" /\ Defined(progress, "daysRemaining")
      THEN IF progress.isOnTrack
             THEN (IF Defined(progress, "periodLabel") THEN progress.periodLabel ELSE "")
           ELSE IF progress.daysRemaining = 0 THEN "due today"
           ELSE IF progress.daysRemaining = 1 THEN "1 day left"
           ELSE ToString(progress.daysRemaining) \o " days left"
    ELSE IF r.kind = "trailing"
      THEN IF Defined(progress, "periodLabel") THEN progress.periodLabel
           ELSE formatRhythm(r)
    ELSE formatRhythm(r)

\* The rhythm description the forms report back (the form data of a rhythm
\* has the fields of the rhythm).
describeRhythm(r) ==
    CASE r.kind = "calendar" -> "per " \o StrReplace(r.period, "ly", "")
      [] r.kind = "trailing" -> "in the last " \o ToString(r.count) \o " " \o r.unit
      [] r.kind = "recurring" -> "every " \o ToString(r.every) \o " " \o r.unit

\* The names the period prompt shows, by the value each stands for.
CALENDAR_PERIOD_OPTIONS ==
    [daily |-> "per day", weekly |-> "per week",
     monthly |-> "per month", yearly |-> "per year"]

\* ------------------------------------------------------------------------
\* Vocabulary of the properties, stated apart from the code's own helpers
\* ------------------------------------------------------------------------
IsBefore(a, b) == a.day < b.day \/ (a.day = b.day /\ a.ms < b.ms)
NotBefore(a, b) == ~IsBefore(a, b)

UnitLength(unit) ==
    CASE unit = "days" -> 1 [] unit = "weeks" -> 7 [] unit = "months" -> 30

\* Timestamp of the latest event of a non-empty history.
LatestTimestamp ==
    CHOOSE t \in {history[i].timestamp : i \in 1 .. Len(history)} :
      \A j \in 1 .. Len(history) : ~IsBefore(t, history[j].timestamp)

DaysSinceLast == now.day - LatestTimestamp.day
IntervalDays == rhythm.every * UnitLength(rhythm.unit)

RECURSIVE SumOver(_, _)
SumOver(f, S) ==
    IF S = {} THEN 0
    ELSE LET i == CHOOSE j \in S : TRUE IN f[i] + SumOver(f, S \ {i})

\* The aggregate of the events of h at the positions in S.
AggregateOf(h, S, measurement) ==
    IF measurement = "instances" THEN Cardinality(S)
    ELSE SumOver([i \in 1 .. Len(h) |->
                    IF h[i].minutes = {} THEN 0 ELSE CHOOSE m \in h[i].minutes : TRUE],
                 S)

PositionsSince(h, start) == {i \in 1 .. Len(h) : NotBefore(h[i].timestamp, start)}

WindowStart == MkDate(now.day - rhythm.count * UnitLength(rhythm.unit), now.ms)
OneMsBefore(t) ==
    IF t.ms = 0 THEN MkDate(t.day - 1, 86399999) ELSE MkDate(t.day, t.ms - 1)

\* First days of the months of 1970, as day numbers; 1970-01-05 was a Monday.
MonthFirstDays1970 == {0, 31, 59, 90, 120, 151, 181, 212, 243, 273, 304, 334}
CalendarPeriodStart ==
    CASE rhythm.period = "daily" -> MkDate(now.day, 0)
      [] rhythm.period = "weekly" ->
           MkDate(CHOOSE d \in (now.day - 6) .. now.day : (d - 4) % 7 = 0, 0)
      [] rhythm.period = "monthly" ->
           MkDate(CHOOSE d \in MonthFirstDays1970 :
                    /\ d <= now.day
                    /\ \A e \in MonthFirstDays1970 : e <= now.day => e <= d, 0)
      [] rhythm.period = "yearly" -> MkDate(0, 0)

\* The permutations of 1 .. n, for every length a history can have.
PermutationsOf ==
    [n \in 0 .. MaxHistory |->
       {p \in [1 .. n -> 1 .. n] : \A i, j \in 1 .. n : p[i] = p[j] => i = j}]
Reorderings(h) == { [i \in 1 .. Len(h) |-> h[p[i]]] : p \in PermutationsOf[Len(h)] }

Has(field) == field \in DOMAIN status

\* ------------------------------------------------------------------------
\* C1: for a recurring rhythm and a non-empty history, isOnTrack is true
\* exactly when the calendar days since the latest event are at most
\* every * (1, 7 or 30); the boundary itself is on track.
\* ------------------------------------------------------------------------
C1_RecurringOnTrackIffWithinInterval ==
    (rhythm.kind = "recurring" /\ history # <<>>) =>
        (status.isOnTrack <=> DaysSinceLast <= IntervalDays)

C1_Witness ==
    /\ rhythm.kind = "recurring"
    /\ Len(history) = 2
    /\ rhythm.unit = "months"
    /\ DaysSinceLast = IntervalDays
    /\ status.isOnTrack

\* ------------------------------------------------------------------------
\* C2: for a trailing rhythm and a history with no timestamp after now,
\* current aggregates exactly the events at or after now - count * unit;
\* an event exactly at the window start counts, one 1 ms earlier does not.
\* ------------------------------------------------------------------------
C2_TrailingWindowInclusiveStart ==
    (/\ rhythm.kind = "trailing"
     /\ \A i \in 1 .. Len(history) : NotBefore(now, history[i].timestamp)) =>
        /\ status.current =
             AggregateOf(history, PositionsSince(history, WindowStart),
                         activity.measurement)
        /\ (Len(history) = 1 /\ history[1].timestamp = WindowStart) =>
             status.current = AggregateOf(history, {1}, activity.measurement)
        /\ (Len(history) = 1 /\ history[1].timestamp = OneMsBefore(WindowStart)) =>
             status.current = 0

C2_Witness ==
    /\ rhythm.kind = "trailing"
    /\ activity.measurement = "instances"
    /\ Len(history) = 2
    /\ history[1].timestamp = OneMsBefore(WindowStart)
    /\ history[2].timestamp = WindowStart
    /\ status.current = 1

\* ------------------------------------------------------------------------
\* C3: for a calendar rhythm, current aggregates exactly the events at or
\* after the start of the period containing now; in the weekly period an
\* event at Monday 00:00:00.000 counts and one on the Sunday before does not.
\* ------------------------------------------------------------------------
C3_CalendarCountsFromPeriodStart ==
    rhythm.kind = "calendar" =>
        /\ status.current =
             AggregateOf(history, PositionsSince(history, CalendarPeriodStart),
                         activity.measurement)
        /\ (/\ rhythm.period = "weekly"
            /\ Len(history) = 1
            /\ history[1].timestamp = CalendarPeriodStart) =>
             status.current = AggregateOf(history, {1}, activity.measurement)
        /\ (/\ rhythm.period = "weekly"
            /\ Len(history) = 1
            /\ history[1].timestamp.day = CalendarPeriodStart.day - 1) =>
             status.current = 0

C3_Witness ==
    /\ rhythm.kind = "calendar"
    /\ rhythm.period = "weekly"
    /\ activity.measurement = "instances"
    /\ Len(history) = 2
    /\ history[1].timestamp = CalendarPeriodStart
    /\ history[2].timestamp = OneMsBefore(CalendarPeriodStart)
    /\ (CalendarPeriodStart.day - 4) % 7 = 0
    /\ status.current = 1

\* ------------------------------------------------------------------------
\* C4: for a trailing or calendar rhythm the status has
\* isOnTrack = (current >= target) and target = the activity's target.
\* ------------------------------------------------------------------------
C4_OnTrackIffTargetMet ==
    rhythm.kind \in {"trailing", "calendar"} =>
        /\ status.isOnTrack <=> status.current >= status.target
        /\ status.target = activity.target

C4_Witness ==
    /\ rhythm.kind = "trailing"
    /\ activity.target = 2
    /\ status.current = 2
    /\ status.isOnTrack

\* ------------------------------------------------------------------------
\* C5: for a recurring rhythm with an empty history the status is not on
\* track, current = 0, context = "Not started yet", daysOverdue = 0 and
\* there is no daysUntilDue.
\* ------------------------------------------------------------------------
C5_RecurringNeverDone ==
    (rhythm.kind = "recurring" /\ history = <<>>) =>
        /\ status.isOnTrack = FALSE
        /\ status.current = 0
        /\ status.context = "Not started yet"
        /\ Has("daysOverdue") /\ status.daysOverdue = 0
        /\ ~Has("daysUntilDue")

C5_Witness ==
    /\ rhythm.kind = "recurring"
    /\ rhythm.unit = "weeks"
    /\ history = <<>>
    /\ status.context = "Not started yet"

\* ------------------------------------------------------------------------
\* C6: for a recurring rhythm with a non-empty history the status carries
\* exactly one of daysUntilDue and daysOverdue: on track, current = target
\* and daysUntilDue = intervalDays - daysSinceLast; overdue, current = 0 and
\* daysOverdue = daysSinceLast - intervalDays >= 1.
\* ------------------------------------------------------------------------
C6_RecurringDueOrOverdue ==
    (rhythm.kind = "recurring" /\ history # <<>>) =>
        /\ Has("daysUntilDue") # Has("daysOverdue")
        /\ status.isOnTrack =>
             /\ Has("daysUntilDue")
             /\ status.current = activity.target
             /\ status.daysUntilDue = IntervalDays - DaysSinceLast
        /\ ~status.isOnTrack =>
             /\ Has("daysOverdue")
             /\ status.current = 0
             /\ status.daysOverdue = DaysSinceLast - IntervalDays
             /\ status.daysOverdue >= 1

C6_Witness ==
    /\ rhythm.kind = "recurring"
    /\ Len(history) = 2
    /\ ~status.isOnTrack
    /\ Has("daysOverdue") /\ status.daysOverdue = 2
    /\ activity.target = 2

\* ------------------------------------------------------------------------
\* C7: the recurring context is "today" for 0 days since the last event,
\* "1 day ago" for 1 and "{n} days ago" otherwise while on track, and
\* "1 day overdue" for 1 day overdue and "{n} days overdue" otherwise: the
\* singular is used exactly when the number is 1.
\* ------------------------------------------------------------------------
C7_RecurringContextWording ==
    (rhythm.kind = "recurring" /\ history # <<>>) =>
        LET since == DaysSinceLast
            over == DaysSinceLast - IntervalDays
        IN  status.context =
              IF since <= IntervalDays
                THEN (CASE since = 0 -> "today"
                        [] since = 1 -> "1 day ago"
                        [] OTHER -> ToString(since) \o " days ago")
                ELSE (CASE over = 1 -> "1 day overdue"
                        [] OTHER -> ToString(over) \o " days overdue")

C7_Witness ==
    /\ rhythm.kind = "recurring"
    /\ Len(history) = 2
    /\ status.context = "1 day overdue"
    /\ DaysSinceLast = 31

\* ------------------------------------------------------------------------
\* C8: aggregateProgress is the number of events for instances and the sum
\* of the events' minutes, a null minutes counting 0, for duration; on the
\* empty list it is 0.
\* ------------------------------------------------------------------------
C8_AggregateCountsOrSums ==
    /\ aggregateProgress(history, "instances") = Len(history)
    /\ aggregateProgress(history, "duration") =
         AggregateOf(history, 1 .. Len(history), "duration")
    /\ aggregateProgress(<<>>, activity.measurement) = 0
    /\ (/\ rhythm.kind \in {"trailing", "calendar"}
        /\ \A i \in 1 .. Len(history) : history[i].timestamp = now) =>
           status.current =
             AggregateOf(history, 1 .. Len(history), activity.measurement)

C8_Witness ==
    /\ rhythm.kind = "trailing"
    /\ activity.measurement = "duration"
    /\ Len(history) = 2
    /\ history[1].minutes = NULL
    /\ history[2].minutes = Some(1)
    /\ \A i \in 1 .. 2 : history[i].timestamp = now
    /\ status.current = 1

\* ------------------------------------------------------------------------
\* C9: getProgress does not depend on the order of history: every
\* reordering of the same events, ties at the latest timestamp included,
\* yields the same status.
\* ------------------------------------------------------------------------
C9_OrderInsensitive ==
    \A h \in Reorderings(history) : getProgress(activity, rhythm, h, now) = status

C9_Witness ==
    /\ rhythm.kind = "recurring"
    /\ Len(history) = 2
    /\ history[1] # history[2]
    /\ history[1].timestamp = history[2].timestamp
    /\ status.isOnTrack

\* ------------------------------------------------------------------------
\* C10: recordCompletion fails when the activity does not exist or measures
\* duration, recordDuration fails when it does not exist or measures
\* instances; a failing call leaves the store unchanged and a succeeding
\* call inserts exactly one event of the matching kind for that activity.
\* ------------------------------------------------------------------------
C10_RecordStep ==
    last'.op \in {"recordCompletion", "recordDuration"} =>
        LET id == last'.input.activityId
            completion == last'.op = "recordCompletion"
            found == id \in DOMAIN activitiesTable
            mismatch == found /\ activitiesTable[id].measurement =
                                   (IF completion THEN "duration" ELSE "instances")
        IN  IF ~found \/ mismatch
              THEN /\ last'.error =
                        Some(IF ~found THEN "Activity not found"
                             ELSE IF completion
                               THEN "Cannot record completion for duration-measurement activity"
                               ELSE "Cannot record duration for instances-measurement activity")
                   /\ UNCHANGED storeVars
              ELSE /\ last'.error = NULL
                   /\ \E h \in DOMAIN historyTable' :
                        /\ h \notin DOMAIN historyTable
                        /\ DOMAIN historyTable' = DOMAIN historyTable \cup {h}
                        /\ \A g \in DOMAIN historyTable : historyTable'[g] = historyTable[g]
                        /\ historyTable'[h].activityId = id
                        /\ historyTable'[h].kind =
                             (IF completion THEN "completion" ELSE "duration")
                   /\ UNCHANGED <<foreignKeys, rhythmsTable, activitiesTable,
                                  rhythmsSeq, activitiesSeq>>

C10_RecordValidation == [][C10_RecordStep]_vars

C10_Witness ==
    /\ last.op = "recordCompletion"
    /\ last.error = Some("Cannot record completion for duration-measurement activity")
    /\ \E h \in DOMAIN historyTable :
         /\ historyTable[h].activityId = last.input.activityId
         /\ historyTable[h].kind = "duration"

\* ------------------------------------------------------------------------
\* C11  In every reachable store state every history event of a stored
\*      activity has kind completion if the activity's measurement is
\*      instances and kind duration if it is duration.
\*      The code does not keep this: updateActivity sets the measurement
\*      column of an activity that already has events.
\* ------------------------------------------------------------------------
KindOf(measurement) == IF measurement = "instances" THEN "completion" ELSE "duration"

\* Stated for the connections that enforce the foreign keys, where every
\* activity row was created with its rhythm.
C11_KindMatchesMeasurement ==
    foreignKeys =>
      \A h \in DOMAIN historyTable :
         historyTable[h].activityId \in DOMAIN activitiesTable
           => historyTable[h].kind =
                KindOf(activitiesTable[historyTable[h].activityId].measurement)

\* ------------------------------------------------------------------------
\* C12  In every reachable store state every stored activity with framing
\*      task has measurement instances.
\*      The code does not keep this: only createActivity checks the pair,
\*      updateActivity sets either column without looking at the other.
\* ------------------------------------------------------------------------
\* Stated for the connections that enforce the foreign keys.
C12_TaskImpliesInstances ==
    foreignKeys =>
      \A a \in DOMAIN activitiesTable :
         activitiesTable[a].framing = "task"
           => activitiesTable[a].measurement = "instances"

\* ------------------------------------------------------------------------
\* C13  createActivity with framing task and measurement duration fails with
\*      "Tasks must use instances measurement" and inserts no activity; with
\*      framing pursuit either measurement passes the check and, unless the
\*      database refuses a rhythmId that names no rhythm (nothing is
\*      inserted then), exactly one activity is inserted carrying the given
\*      fields.
\* ------------------------------------------------------------------------
\* The step inserted exactly one activity row, equal to the input.
InsertedActivity(input) ==
    \E a \in DOMAIN activitiesTable' :
       /\ a \notin DOMAIN activitiesTable
       /\ DOMAIN activitiesTable' = DOMAIN activitiesTable \cup {a}
       /\ \A b \in DOMAIN activitiesTable : activitiesTable'[b] = activitiesTable[b]
       /\ activitiesTable'[a] = input

C13_CreateStep ==
    last'.op = "createActivity" =>
        LET input == last'.input
        IN  /\ (input.framing = "task" /\ input.measurement = "duration")
                 => /\ last'.error = Some("Tasks must use instances measurement")
                    /\ activitiesTable' = activitiesTable
            /\ input.framing = "pursuit"
                 => IF foreignKeys /\ input.rhythmId \notin DOMAIN rhythmsTable
                      THEN /\ last'.error = Some("FOREIGN KEY constraint failed")
                           /\ activitiesTable' = activitiesTable
                      ELSE /\ last'.error = NULL
                           /\ InsertedActivity(input)

C13_CreateValidation == [][C13_CreateStep]_vars

\* C13 as first stated: every pursuit is inserted, whatever its rhythmId.
C13_OriginalStep ==
    last'.op = "createActivity" =>
        LET input == last'.input
        IN  /\ (input.framing = "task" /\ input.measurement = "duration")
                 => /\ last'.error = Some("Tasks must use instances measurement")
                    /\ activitiesTable' = activitiesTable
            /\ input.framing = "pursuit"
                 => /\ last'.error = NULL
                    /\ InsertedActivity(input)

C13_Original == [][C13_OriginalStep]_vars

\* A task measured in minutes was just refused while a pursuit measured in
\* minutes is stored.
C13_Witness ==
    /\ last.op = "createActivity"
    /\ last.input.framing = "task"
    /\ last.input.measurement = "duration"
    /\ last.error = Some("Tasks must use instances measurement")
    /\ \E a \in DOMAIN activitiesTable :
         /\ activitiesTable[a].framing = "pursuit"
         /\ activitiesTable[a].measurement = "duration"

\* ------------------------------------------------------------------------
\* C14  After deleteActivity(id) succeeds no history event with
\*      activityId = id remains and the events of every other activity are
\*      unchanged; consequently in every reachable store state each history
\*      event refers to an existing activity.
\*      The code leaves the removal to ON DELETE CASCADE and never turns
\*      foreign-key enforcement on, so the events stay behind on a
\*      connection that does not enforce it.
\* ------------------------------------------------------------------------
EventsOf(table, id) == {h \in DOMAIN table : table[h].activityId = id}

C14_DeleteStep ==
    /\ (last'.op = "deleteActivity" /\ last'.input \in DOMAIN activitiesTable)
         => /\ EventsOf(historyTable', last'.input) = {}
            /\ \A h \in DOMAIN historyTable \ EventsOf(historyTable, last'.input) :
                 /\ h \in DOMAIN historyTable'
                 /\ historyTable'[h] = historyTable[h]
    /\ \A h \in DOMAIN historyTable' :
         historyTable'[h].activityId \in DOMAIN activitiesTable'

C16_EventStep ==
    /\ \A h \in DOMAIN historyTable \cap DOMAIN historyTable' :
         historyTable'[h] = historyTable[h]
    /\ \A h \in DOMAIN historyTable' \ DOMAIN historyTable : h > historySeq
    /\ \A h \in DOMAIN historyTable' : h <= historySeq'
    /\ historySeq' >= historySeq

C16_EventsImmutable == [][C16_EventStep]_vars

\* The first event was deleted and the second, logged before the deletion,
\* is still there; its activity was edited or events were logged after it.
C16_Witness ==
    /\ last.op = "deleteHistoryEvent"
    /\ last.input = 1
    /\ DOMAIN historyTable = {2}
    /\ historySeq = 2

\* ------------------------------------------------------------------------
\* C17  In every reachable store state every history event of kind
\*      completion has minutes = null and every event of kind duration has
\*      minutes >= 0, for every minutes value a caller can pass to
\*      recordDuration.
\*      The code does not keep this: recordDuration stores input.minutes as
\*      it gets it.
\* ------------------------------------------------------------------------
\* Stated for the connections that enforce the foreign keys.
C17_MinutesMatchKind ==
    foreignKeys =>
      \A h \in DOMAIN historyTable :
         /\ historyTable[h].kind = "completion" => historyTable[h].minutes = NULL
         /\ historyTable[h].kind = "duration"
              => /\ historyTable[h].minutes # NULL
                 /\ ValueOf(historyTable[h].minutes) >= 0

\* ------------------------------------------------------------------------
\* C19  completeErrand fails with a not-found error for a missing errand
\*      and with an already-completed error for an errand whose completedAt
\*      is set, leaving the errand unchanged; so an errand's completedAt
\*      goes from null to a timestamp at most once and never changes
\*      afterwards.
\* ------------------------------------------------------------------------
C19_CompleteStep ==
    /\ last'.op = "completeErrand" =>
         LET id == last'.input
         IN  IF id \notin DOMAIN errandsTable
               THEN /\ last'.error =
                         Some("Errand with id " \o ToString(id) \o " not found")
                    /\ errandsTable' = errandsTable
               ELSE IF errandsTable[id].completedAt # NULL
                 THEN /\ last'.error =
                           Some("Errand \"" \o errandsTable[id].name
                                  \o "\" is already completed")
                      /\ errandsTable' = errandsTable
                 ELSE /\ last'.error = NULL
                      /\ DOMAIN errandsTable' = DOMAIN errandsTable
                      /\ errandsTable'[id].completedAt # NULL
                      /\ errandsTable'[id].name = errandsTable[id].name
                      /\ errandsTable'[id].createdAt = errandsTable[id].createdAt
                      /\ \A e \in DOMAIN errandsTable \ {id} :
                           errandsTable'[e] = errandsTable[e]
    /\ \A e \in DOMAIN errandsTable \cap DOMAIN errandsTable' :
         errandsTable[e].completedAt # NULL
           => errandsTable'[e].completedAt = errandsTable[e].completedAt

C19_CompleteOnce == [][C19_CompleteStep]_vars

\* A second completion of an errand was just refused.
C19_Witness ==
    /\ last.op = "completeErrand"
    /\ last.error = Some("Errand \"post\" is already completed")
    /\ last.input \in DOMAIN errandsTable
    /\ errandsTable[last.input].completedAt # NULL

\* ------------------------------------------------------------------------
\* C20  listErrands(now) without includeExpired returns exactly the errands
\*      that are pending or whose completion is strictly less than 3 days
\*      before now (one completed exactly 3 days before now is hidden), with
\*      includeExpired it returns every errand, and listPendingErrands
\*      returns exactly the errands with completedAt = null.
\* ------------------------------------------------------------------------
ErrandRecord(i) ==
    [id |-> i, name |-> errandsTable[i].name,
     createdAt |-> errandsTable[i].createdAt,
     completedAt |-> errandsTable[i].completedAt]

Pending(i) == errandsTable[i].completedAt = NULL

\* t is less than three days before n.
WithinThreeDays(t, n) == t.day > n.day - 3 \/ (t.day = n.day - 3 /\ t.ms > n.ms)

C15_EditStep ==
    last'.op \in {"updateActivity", "persistActivityUpdate"} =>
        /\ DOMAIN historyTable' = DOMAIN historyTable
        /\ \A h \in DOMAIN historyTable : historyTable'[h] = historyTable[h]
        /\ DOMAIN activitiesTable' = DOMAIN activitiesTable
        /\ \A id \in DOMAIN activitiesTable :
             \A h \in DOMAIN historyTable :
                historyTable[h].activityId = id
                  => \A result \in getActivityHistory(historyTable', id) :
                        \E i \in 1 .. Len(result) :
                           /\ result[i].id = h
                           /\ result[i].activityId = id
                           /\ result[i].kind = historyTable[h].kind
                           /\ result[i].minutes = historyTable[h].minutes
                           /\ result[i].timestamp = historyTable[h].timestamp

C15_EditsKeepHistory == [][C15_EditStep]_vars

\* The form of an activity that has events was just persisted.
C15_Witness ==
    /\ last.op = "persistActivityUpdate"
    /\ last.error = NULL
    /\ last.input \in DOMAIN activitiesTable
    /\ activitiesTable[last.input].name = "run"
    /\ \E h \in DOMAIN historyTable : historyTable[h].activityId = last.input

MonthFirstDays == {MonthStart(y, m) : y \in Years, m \in 0 .. 12}
YearFirstDays == {YearStart(y) : y \in 1970 .. 1974}

LastAtOrBefore(days, day) ==
    CHOOSE d \in days : d <= day /\ ((d + 1) .. day) \cap days = {}
FirstAfter(days, day) ==
    CHOOSE d \in days : d > day /\ ((day + 1) .. (d - 1)) \cap days = {}

\* 0 = Monday .. 6 = Sunday (day 0, 1970-01-01, was a Thursday)
IsoWeekday(day) == (day + 3) % 7

PeriodFirstDay(period, day) ==
    CASE period = "daily" -> day
      [] period = "weekly" -> CHOOSE d \in (day - 6) .. day : IsoWeekday(d + 7) = 0
      [] period = "monthly" -> LastAtOrBefore(MonthFirstDays, day)
      [] period = "yearly" -> LastAtOrBefore(YearFirstDays, day)

PeriodLastDay(period, day) ==
    CASE period = "daily" -> day
      [] period = "weekly" -> CHOOSE d \in day .. (day + 6) : IsoWeekday(d) = 6
      [] period = "monthly" -> FirstAfter(MonthFirstDays, day) - 1
      [] period = "yearly" -> FirstAfter(YearFirstDays, day) - 1

\* ------------------------------------------------------------------------
\* C21: for every instant now and every calendar period,
\* periodStart <= now <= periodEnd, periodStart is 00:00:00.000 of the
\* period's first day and periodEnd is 23:59:59.999 of its last day on the
\* wall clock; the week runs from the Monday on or before now to the Sunday
\* on or after it.  periodEnd - periodStart for the week is 7 days minus
\* 1 ms when daylight saving is the same at both ends, and one hour more or
\* less when a transition falls within the week.
\* ------------------------------------------------------------------------
WeekLength == [days |-> 6, ms |-> msPerDay - 1]

C21_Bounds(periodStart, periodEnd) ==
    /\ NotBefore(now, periodStart)
    /\ NotBefore(periodEnd, now)
    /\ ToLocal(periodStart) = MkDate(PeriodFirstDay(rhythm.period, ToLocal(now).day), 0)
    /\ ToLocal(periodEnd) =
         MkDate(PeriodLastDay(rhythm.period, ToLocal(now).day), msPerDay - 1)
    /\ rhythm.period = "weekly" =>
         /\ getDay(periodStart) = 1
         /\ getDay(periodEnd) = 0
         /\ ToLocal(periodEnd).day - ToLocal(periodStart).day = 6

C21_PeriodBounds ==
    rhythm.kind = "calendar" =>
        LET periodStart == getPeriodStart(now, rhythm.period)
            periodEnd == getPeriodEnd(now, rhythm.period)
            length == MsBetween(periodEnd, periodStart)
        IN  /\ C21_Bounds(periodStart, periodEnd)
            /\ rhythm.period = "weekly" =>
                 /\ InDst(periodStart) = InDst(periodEnd) => length = WeekLength
                 /\ (InDst(periodStart) /\ ~InDst(periodEnd)) =>
                      length = [days |-> 7, ms |-> msPerHour - 1]
                 /\ (~InDst(periodStart) /\ InDst(periodEnd)) =>
                      length = [days |-> 6, ms |-> msPerDay - msPerHour - 1]

\* The claim as stated: the week is always 7 days minus 1 ms long.
C21_Original ==
    rhythm.kind = "calendar" =>
        LET periodStart == getPeriodStart(now, rhythm.period)
            periodEnd == getPeriodEnd(now, rhythm.period)
        IN  /\ C21_Bounds(periodStart, periodEnd)
            /\ rhythm.period = "weekly" =>
                 MsBetween(periodEnd, periodStart) = WeekLength

\* A week of the zone with daylight saving that the autumn transition falls
\* in: it starts in daylight-saving time and ends in standard time.
C21_Witness ==
    /\ rhythm.kind = "calendar"
    /\ rhythm.period = "weekly"
    /\ timeZone = "America/New_York"
    /\ InDst(getPeriodStart(now, rhythm.period))
    /\ ~InDst(getPeriodEnd(now, rhythm.period))
    /\ getDay(now) = 0
    /\ ToLocal(getPeriodStart(now, rhythm.period)).day = ToLocal(now).day - 6

\* ------------------------------------------------------------------------
\* C22: for a calendar rhythm daysRemaining is
\* max(0, ceil((periodEnd - now) / 86,400,000 ms)) and lies between 0 and the
\* number of days in the period: 1 for daily, 7 for weekly, at most 31 for
\* monthly and at most 366 for yearly.
\* ------------------------------------------------------------------------
WallPeriodEnd ==
    FromLocal(MkDate(PeriodLastDay(rhythm.period, ToLocal(now).day), msPerDay - 1))

DaysInPeriod ==
    PeriodLastDay(rhythm.period, ToLocal(now).day)
      - PeriodFirstDay(rhythm.period, ToLocal(now).day) + 1

C22_DaysRemainingBounded ==
    rhythm.kind = "calendar" =>
        LET remaining == MsBetween(WallPeriodEnd, now)
            whole == remaining.days + (IF remaining.ms > 0 THEN 1 ELSE 0)
        IN  /\ status.daysRemaining = (IF whole > 0 THEN whole ELSE 0)
            /\ status.daysRemaining \in 0 .. DaysInPeriod
            /\ rhythm.period = "daily" => DaysInPeriod = 1
            /\ rhythm.period = "weekly" => DaysInPeriod = 7
            /\ rhythm.period = "monthly" => DaysInPeriod <= 31
            /\ rhythm.period = "yearly" => DaysInPeriod <= 366

\* ------------------------------------------------------------------------
\* C28: every status getProgress returns satisfies exactly one of the three
\* group predicates of displayFullStatus (Needs Attention, In Progress,
\* Complete).
\* ------------------------------------------------------------------------
C28_OneGroup ==
    /\ needsAttention(status) \/ inProgress(status) \/ complete(status)
    /\ ~(needsAttention(status) /\ inProgress(status))
    /\ ~(needsAttention(status) /\ complete(status))
    /\ ~(inProgress(status) /\ complete(status))

\* A recurring activity due today: on track, and shown under Needs Attention.
C28_Witness ==
    /\ rhythm.kind = "recurring"
    /\ status.isOnTrack
    /\ FieldIs(status, "daysUntilDue", 0)
    /\ needsAttention(status)
    /\ ~complete(status)

\* ------------------------------------------------------------------------
\* C29: for a calendar rhythm daysRemaining is at least 1 at every instant
\* strictly before periodEnd and 0 only at periodEnd itself; for the daily
\* period it is 1 throughout the day; the display's "due today" for a
\* calendar rhythm appears only at the period's final millisecond.
\* ------------------------------------------------------------------------
C29_ZeroOnlyAtPeriodEnd ==
    rhythm.kind = "calendar" =>
        /\ IsBefore(now, WallPeriodEnd) => status.daysRemaining >= 1
        /\ status.daysRemaining = 0 => now = WallPeriodEnd
        /\ (rhythm.period = "daily" /\ now # WallPeriodEnd) => status.daysRemaining = 1
        /\ formatContext(status, rhythm) = "due today" => now = WallPeriodEnd

\* ------------------------------------------------------------------------
\* C30: for each calendar period describeRhythm and formatRhythm yield
\* "per " followed by the noun of the evaluator's periodLabel ("this day",
\* "this week", "this month", "this year"), which is also the name of the
\* period's prompt option.
\* ------------------------------------------------------------------------
C30_SamePeriodNoun ==
    rhythm.kind = "calendar" =>
        LET noun == SubSeq(status.periodLabel, Len("this ") + 1, Len(status.periodLabel))
        IN  /\ noun \in {"day", "week", "month", "year"}
            /\ describeRhythm(rhythm) = "per " \o noun
            /\ formatRhythm(rhythm) = "per " \o noun
            /\ CALENDAR_PERIOD_OPTIONS[rhythm.period] = "per " \o noun

\* ------------------------------------------------------------------------
\* C23: for a trailing rhythm current aggregates every event with
\* windowStart <= timestamp, an event timestamped after now included; for
\* a history with no event after now these are the events with
\* windowStart <= timestamp <= now.
\* ------------------------------------------------------------------------
PositionsWithin(h, start, end) ==
    {i \in 1 .. Len(h) : NotBefore(h[i].timestamp, start) /\ NotBefore(end, h[i].timestamp)}

C23_WindowOpenEnded ==
    rhythm.kind = "trailing" =>
        /\ status.current =
             AggregateOf(history, PositionsSince(history, WindowStart),
                         activity.measurement)
        /\ status.isOnTrack <=>
             AggregateOf(history, PositionsSince(history, WindowStart),
                         activity.measurement) >= activity.target
        /\ (\A i \in 1 .. Len(history) : NotBefore(now, history[i].timestamp)) =>
             status.current =
               AggregateOf(history, PositionsWithin(history, WindowStart, now),
                           activity.measurement)

\* The claim as stated: the window ends at now.
C23_Original ==
    rhythm.kind = "trailing" =>
        /\ status.current =
             AggregateOf(history, PositionsWithin(history, WindowStart, now),
                         activity.measurement)
        /\ status.isOnTrack <=>
             AggregateOf(history, PositionsWithin(history, WindowStart, now),
                         activity.measurement) >= activity.target

\* The clock has moved on, the only event is still timestamped after now,
\* and it is counted.
C23_Witness ==
    /\ rhythm.kind = "trailing"
    /\ IsBefore(ClockStart, now)
    /\ activity.measurement = "instances"
    /\ activity.target = 1
    /\ Len(history) = 1
    /\ IsBefore(now, history[1].timestamp)
    /\ status.current = 1
    /\ status.isOnTrack

\* ------------------------------------------------------------------------
\* C24: logging never makes a status worse: when the loader reports
\* isOnTrack for an activity at an instant now, then after a successful
\* recordCompletion or recordDuration for it with timestamp <= now it still
\* reports isOnTrack at the same now, and for a trailing or calendar rhythm
\* current has not decreased.
\* The code does not keep this: recordDuration logs negative minutes.
\* ------------------------------------------------------------------------
C24_LogStep ==
    (/\ last'.op \in {"recordCompletion", "recordDuration"}
     /\ last'.error = NULL
     /\ historyTable' # historyTable) =>
        \A at \in LoadNows :
          NotBefore(at, last'.input.timestamp) =>
            \A before \in loadActivityWithProgress(activitiesTable, rhythmsTable,
                             historyTable, last'.input.activityId, at),
               after \in loadActivityWithProgress(activitiesTable', rhythmsTable',
                             historyTable', last'.input.activityId, at) :
              before.isOnTrack =>
                /\ after.isOnTrack
                /\ "daysRemaining" \in DOMAIN before \/ "periodLabel" \in DOMAIN before
                     => after.current >= before.current

C24_LoggingNeverWorsens == [][C24_LogStep]_vars

\* ------------------------------------------------------------------------
\* C25: passage of time alone never improves a status: over a fixed history
\* with non-negative minutes, from one instant to a later one a recurring
\* status that is overdue stays overdue with daysOverdue not smaller, and
\* for trailing and calendar rhythms current does not grow.
\* ------------------------------------------------------------------------
C25_TimeStep ==
    IsBefore(now, now') =>
        /\ (rhythm.kind = "recurring" /\ "daysOverdue" \in DOMAIN status) =>
             /\ "daysOverdue" \in DOMAIN status'
             /\ ~status'.isOnTrack
             /\ status'.daysOverdue >= status.daysOverdue
        /\ rhythm.kind \in {"trailing", "calendar"} =>
             status'.current <= status.current

C25_TimeNeverImproves == [][C25_TimeStep]_vars

\* An event that counted when the clock started has left the trailing
\* window: current has gone down to 0.
C25_Witness ==
    /\ rhythm.kind = "trailing"
    /\ Len(history) = 1
    /\ IsBefore(ClockStart, now)
    /\ getProgress(activity, rhythm, history, ClockStart).current >= 1
    /\ status.current = 0

\* ------------------------------------------------------------------------
\* C26: of two concurrent completeErrand calls on the same pending errand,
\* in every interleaving of their reads and writes, at most one succeeds
\* and completedAt is written once; the other fails with the
\* already-completed error.
\* The code does not keep this: both calls can read the errand as pending.
\* ------------------------------------------------------------------------
C26_AtMostOneSucceeds ==
    \A c, d \in Callers :
       (/\ c # d
        /\ calls[c].outcome = "completed"
        /\ calls[d].outcome = "completed") =>
          calls[c].id # calls[d].id

\* ------------------------------------------------------------------------
\* C27: persistNewActivity is all-or-nothing: when it fails because
\* createActivity rejects the form (task framing with duration
\* measurement), the store is as it was before the call and no rhythm row
\* created for the form is left behind.
\* The code does not keep this: the rhythm is inserted before createActivity
\* is called and is not removed when it throws.
\* ------------------------------------------------------------------------
C27_FailedStep ==
    (last'.op = "persistNewActivity" /\ last'.error # NULL) =>
        /\ rhythmsTable' = rhythmsTable
        /\ activitiesTable' = activitiesTable
        /\ historyTable' = historyTable

C27_AllOrNothing == [][C27_FailedStep]_vars

====
